---- MODULE Spec2Model ----
(***************************************************************************)
(* Model of switchboard-function/src/main.rs: the settlement function of   *)
(* the arena matchmaking program.  Two entry points are modelled: `main`   *)
(* (one run of the settlement pipeline) and the unit-test harness that     *)
(* calls generate_randomness on arbitrary bounds and encodes the result.   *)
(*                                                                         *)
(* A u32 is a pair <<hi, lo>> of 16-bit halves, value = hi * 2^16 + lo, so *)
(* that the full 32-bit range, its wrap-around and its little-endian byte  *)
(* layout are kept exactly.  An Option is a sequence: <<>> is None, <<x>>  *)
(* is Some(x).                                                             *)
(***************************************************************************)
EXTENDS Integers, Sequences, FiniteSets, TLC

VARIABLES entry, pc, exit, overflow_checks, runner, maybe_params,
          arg_min, arg_max, entropy, gr_out, rand_reads, random_result,
          faction, ixn_data, settle_ixn, ixs, emit_calls, emit_result,
          error_calls, signal_result

vars == <<entry, pc, exit, overflow_checks, runner, maybe_params,
          arg_min, arg_max, entropy, gr_out, rand_reads, random_result,
          faction, ixn_data, settle_ixn, ixs, emit_calls, emit_result,
          error_calls, signal_result>>

(* ------------------------------ bounds -------------------------------- *)

\* how many values next to 0 and next to u32::MAX are tried as bounds
Edge == 1
\* request blobs 0..MaxSeed are tried as container_params
MaxSeed == 1
\* faction bytes 0..MaxFaction (and 255) are tried
MaxFaction == 1

(* --------------------------- u32 arithmetic --------------------------- *)

Half == 65536

Zero == <<0, 0>>
One == <<0, 1>>
U32Max == <<Half - 1, Half - 1>>

\* a u32 literal below 2^31
U32(n) == <<n \div Half, n % Half>>

Lt(a, b) == a[1] < b[1] \/ (a[1] = b[1] /\ a[2] < b[2])
Leq(a, b) == a = b \/ Lt(a, b)

\* a + b in u32: the wrapped sum and whether it overflowed
AddU32(a, b) ==
    LET lo == a[2] + b[2]
        hi == a[1] + b[1] + (lo \div Half)
    IN  [val |-> <<hi % Half, lo % Half>>, overflow |-> hi >= Half]

\* a - b in u32: the wrapped difference and whether it underflowed
SubU32(a, b) ==
    LET borrow == IF a[2] < b[2] THEN 1 ELSE 0
        lo == a[2] + Half * borrow - b[2]
        hi == a[1] - b[1] - borrow
    IN  [val |-> <<(hi + Half) % Half, lo>>, overflow |-> hi < 0]

\* bit i of a, bit 31 the top one
Bit(a, i) == IF i >= 16 THEN (a[1] \div (2 ^ (i - 16))) % 2
                        ELSE (a[2] \div (2 ^ i)) % 2

\* one step of binary long division, bit by bit from the top: r < w on
\* entry, and the result is again below w
RemStep(r, bit, w) ==
    LET lo == 2 * r[2] + bit
        d  == <<2 * r[1] + (lo \div Half), lo % Half>>
    IN  IF Lt(d, w) THEN d
        ELSE LET borrow == IF d[2] < w[2] THEN 1 ELSE 0
             IN  <<d[1] - w[1] - borrow, d[2] + Half * borrow - w[2]>>

\* the remainder of a by w once bits 31..i+1 of a are taken in, r being
\* the remainder so far; t = <<a, w, i, r>>
RemBits[t \in (Nat \X Nat) \X (Nat \X Nat) \X Int \X (Nat \X Nat)] ==
    IF t[3] < 0 THEN t[4]
    ELSE RemBits[<<t[1], t[2], t[3] - 1,
                   RemStep(t[4], Bit(t[1], t[3]), t[2])>>]

\* a % w in u32, w /= 0
RemU32(a, w) == RemBits[<<a, w, 31, Zero>>]

\* a faulty encoding: the bytes of v most significant first
to_be_bytes(v) == <<v[1] \div 256, v[1] % 256, v[2] \div 256, v[2] % 256>>

\* u32::to_le_bytes
to_le_bytes(v) == <<v[2] % 256, v[2] \div 256, v[1] % 256, v[1] \div 256>>

\* bytemuck::cast_slice::<u8, u32> on a little-endian target, element 0
cast_slice(b) == <<b[4] * 256 + b[3], b[2] * 256 + b[1]>>

(* ------------------------- generate_randomness ------------------------ *)

Returned(v, reads, wrapped) ==
    [status |-> "ok", value |-> <<v>>, reads |-> reads,
     wrapped |-> wrapped, panic |-> ""]

Panicked(msg, reads, wrapped) ==
    [status |-> "panic", value |-> <<>>, reads |-> reads,
     wrapped |-> wrapped, panic |-> msg]

\* src is what the entropy source and the cast would deliver on this call
\* (read_rand failing, the byte array not being 4-aligned, or four bytes),
\* checks says whether the build panics on integer overflow (the debug
\* profile) or wraps (the release profile)
RECURSIVE generate_randomness(_, _, _, _)
generate_randomness(min, max, src, checks) ==
    IF min = max THEN Returned(min, 0, FALSE)
    ELSE IF Lt(max, min) THEN generate_randomness(max, min, src, checks)
    ELSE
      LET inc    == AddU32(max, One)
          window == SubU32(inc.val, min)
      IN
      IF checks /\ inc.overflow
        THEN Panicked("attempt to add with overflow", 0, FALSE)
      ELSE IF checks /\ window.overflow
        THEN Panicked("attempt to subtract with overflow", 0, FALSE)
      ELSE IF src.kind = "read_err"
        THEN Panicked("gramine failed to generate randomness", 1,
                      inc.overflow \/ window.overflow)
      ELSE IF src.kind = "misaligned"
        THEN Panicked("cast_slice: TargetAlignmentGreaterAndInputNotAligned",
                      1, inc.overflow \/ window.overflow)
      ELSE IF window.val = Zero
        THEN Panicked("attempt to calculate the remainder with a divisor of zero",
                      1, inc.overflow \/ window.overflow)
      ELSE
        LET raw_result == cast_slice(src.bytes)
            sum == AddU32(RemU32(raw_result, window.val), min)
        IN  IF checks /\ sum.overflow
              THEN Panicked("attempt to add with overflow", 1, FALSE)
              ELSE Returned(sum.val, 1,
                       inc.overflow \/ window.overflow \/ sum.overflow)

(* ------------------------------ inputs -------------------------------- *)

\* bounds tried: the ends of the u32 range, 2^31, and the values main and
\* the tests use
BoundSamples ==
    {U32(n) : n \in 0..Edge}
      \cup {<<Half - 1, Half - 1 - k>> : k \in 0..Edge}
      \cup {U32(50), U32(100), U32(200), U32(100000), <<Half \div 2, 0>>}

\* raw entropy words tried: the bounds themselves (raw = max makes
\* generate_randomness(0, max) reach window - 1), and the two words with
\* which main's generate_randomness(1, 100_000) yields 42 and 100_000
RawSamples == BoundSamples \cup {U32(41), U32(99999)}

EntropyOutcomes ==
    {[kind |-> "read_err", bytes |-> <<>>],
     [kind |-> "misaligned", bytes |-> <<>>]}
      \cup {[kind |-> "bytes", bytes |-> to_le_bytes(r)] : r \in RawSamples}

Factions == (0..MaxFaction) \cup {255}

(* ------------------------- request parameters ------------------------- *)

\* the decoded ContainerParams of request blob number seed: ten account
\* identifiers (pairwise distinct unless seed + 1 is a multiple of 11, when
\* all are the default key 0) and the faction byte
SampleParams(seed, f) ==
    LET key(i) == (i * (seed + 1)) % 11
    IN  [program_id |-> key(1), user |-> key(2), realm_pda |-> key(3),
         user_account_pda |-> key(4), spaceship_pda |-> key(5),
         opponent_spaceship_1_pda |-> key(6),
         opponent_spaceship_2_pda |-> key(7),
         opponent_spaceship_3_pda |-> key(8),
         opponent_spaceship_4_pda |-> key(9),
         opponent_spaceship_5_pda |-> key(10),
         faction |-> f]

\* container_params blobs: well-formed ones carry a request, the others
\* do not decode
Blobs ==
    [valid : {TRUE}, seed : 0..MaxSeed, faction : Factions]
      \cup [valid : {FALSE}, seed : {0}, faction : {0}]

\* ContainerParams::decode: a Result, Ok(params) or Err
decode(container_params) ==
    IF container_params.valid
      THEN [is_err |-> FALSE,
            ok |-> <<SampleParams(container_params.seed,
                                  container_params.faction)>>]
      ELSE [is_err |-> TRUE, ok |-> <<>>]

\* the FunctionRunner after new_from_cluster succeeded: its keys, and the
\* two Options main unwraps
Runners ==
    [signer : {12}, function : {13},
     function_request_key : {<<>>, <<14>>},
     function_request_data :
        {<<>>} \cup {<<[container_params |-> b]>> : b \in Blobs}]

(* ------------------------ instruction assembly ------------------------ *)

\* get_ixn_discriminator("arena_matchmaking_settle"):
\* the first 8 bytes of sha256("global:arena_matchmaking_settle")
get_ixn_discriminator == <<86, 221, 134, 63, 62, 148, 27, 38>>

\* ixn_data: discriminator, then the result's bytes, then the faction
BuildIxnData(result, f) ==
    Append(get_ixn_discriminator \o to_le_bytes(result), f)

\* AccountMeta::new(pubkey, is_signer)
AccountMetaNew(pubkey, is_signer) ==
    [pubkey |-> pubkey, is_signer |-> is_signer, is_writable |-> TRUE]

\* AccountMeta::new_readonly(pubkey, is_signer)
AccountMetaReadonly(pubkey, is_signer) ==
    [pubkey |-> pubkey, is_signer |-> is_signer, is_writable |-> FALSE]

\* a faulty accounts vec: the user account (position 4) built with
\* AccountMeta::new, so writable
SettleAccounts_UserAccountWritable(r, params) ==
    <<AccountMetaReadonly(r.signer, TRUE),
      AccountMetaReadonly(params.user, FALSE),
      AccountMetaNew(params.realm_pda, FALSE),
      AccountMetaNew(params.user_account_pda, FALSE),
      AccountMetaNew(params.spaceship_pda, FALSE),
      AccountMetaReadonly(r.function, FALSE),
      AccountMetaReadonly(r.function_request_key[1], FALSE),
      AccountMetaNew(params.opponent_spaceship_1_pda, FALSE),
      AccountMetaNew(params.opponent_spaceship_2_pda, FALSE),
      AccountMetaNew(params.opponent_spaceship_3_pda, FALSE),
      AccountMetaNew(params.opponent_spaceship_4_pda, FALSE),
      AccountMetaNew(params.opponent_spaceship_5_pda, FALSE)>>

\* the accounts vec of settle_ixn
SettleAccounts(r, params) ==
    <<AccountMetaReadonly(r.signer, TRUE),
      AccountMetaReadonly(params.user, FALSE),
      AccountMetaNew(params.realm_pda, FALSE),
      AccountMetaReadonly(params.user_account_pda, FALSE),
      AccountMetaNew(params.spaceship_pda, FALSE),
      AccountMetaReadonly(r.function, FALSE),
      AccountMetaReadonly(r.function_request_key[1], FALSE),
      AccountMetaNew(params.opponent_spaceship_1_pda, FALSE),
      AccountMetaNew(params.opponent_spaceship_2_pda, FALSE),
      AccountMetaNew(params.opponent_spaceship_3_pda, FALSE),
      AccountMetaNew(params.opponent_spaceship_4_pda, FALSE),
      AccountMetaNew(params.opponent_spaceship_5_pda, FALSE)>>

\* the compute-budget program's key, outside the key space of the requests
ComputeBudgetId == 15

\* Instruction::new_with_borsh(compute_budget::id(),
\*   &ComputeBudgetInstruction::SetComputeUnitLimit(1_200_000), vec![]):
\* borsh writes the variant index 2, then the u32 little-endian
increase_compute_budget_ix ==
    [program_id |-> ComputeBudgetId,
     data |-> <<2>> \o to_le_bytes(U32(1200000)),
     accounts |-> <<>>]

\* a faulty ixs vec: the settlement instruction put first
BuildIxs_SettleFirst(settle) == <<settle, increase_compute_budget_ix>>

\* the ixs vec handed to emit
BuildIxs(settle) == <<increase_compute_budget_ix, settle>>

(* ------------------------------- state -------------------------------- *)

InitCommon ==
    /\ overflow_checks \in BOOLEAN
    /\ exit = "running"
    /\ maybe_params = <<>>
    /\ entropy = <<>>
    /\ gr_out = <<>>
    /\ rand_reads = 0
    /\ random_result = <<>>
    /\ faction = <<>>
    /\ ixn_data = <<>>
    /\ settle_ixn = <<>>
    /\ ixs = <<>>
    /\ emit_calls = <<>>
    /\ emit_result = "none"
    /\ error_calls = <<>>
    /\ signal_result = "none"

\* main, with the runner constructed
InitMain ==
    /\ entry = "main"
    /\ pc = "Validating"
    /\ runner \in Runners
    /\ arg_min = <<>>
    /\ arg_max = <<>>
    /\ InitCommon

\* the tests' call of generate_randomness, on any of the sampled bounds
InitTest ==
    /\ entry = "test"
    /\ pc = "Call"
    /\ runner = <<>>
    /\ arg_min \in {<<m>> : m \in BoundSamples}
    /\ arg_max \in {<<m>> : m \in BoundSamples}
    /\ InitCommon

Init == InitMain \/ InitTest

(* ------------------------------- main --------------------------------- *)

\* a faulty Validate: the return after emit_error(1) is missing, so main
\* goes on to draw
Validate_ContinuesAfterError ==
    /\ entry = "main" /\ pc = "Validating"
    /\ IF runner.function_request_data = <<>>
         THEN /\ pc' = "Aborted"
              /\ exit' = "panicked"
              /\ UNCHANGED <<maybe_params, error_calls, signal_result>>
         ELSE LET res == decode(runner.function_request_data[1].container_params)
              IN  /\ maybe_params' = <<res>>
                  /\ pc' = "Drawing"
                  /\ exit' = exit
                  /\ IF res.is_err
                       THEN /\ error_calls' = Append(error_calls, 1)
                            /\ signal_result' = "ok"
                       ELSE UNCHANGED <<error_calls, signal_result>>
    /\ UNCHANGED <<entry, overflow_checks, runner, arg_min, arg_max, entropy,
                   gr_out, rand_reads, random_result, faction, ixn_data,
                   settle_ixn, ixs, emit_calls, emit_result>>

\* lines 14-26: unwrap the request data, decode it, and on a decode error
\* signal code 1 (unwrapping the signal's result) and return
Validate ==
    /\ entry = "main" /\ pc = "Validating"
    /\ IF runner.function_request_data = <<>>
         THEN /\ pc' = "Aborted"
              /\ exit' = "panicked"
              /\ UNCHANGED <<maybe_params, error_calls, signal_result>>
         ELSE LET res == decode(runner.function_request_data[1].container_params)
              IN  /\ maybe_params' = <<res>>
                  /\ IF res.is_err
                       THEN /\ error_calls' = Append(error_calls, 1)
                            /\ pc' = "Failed"
                            /\ \E signalled \in BOOLEAN :
                                 IF signalled
                                   THEN /\ signal_result' = "ok"
                                        /\ exit' = "returned"
                                   ELSE /\ signal_result' = "err"
                                        /\ exit' = "panicked"
                       ELSE /\ pc' = "Drawing"
                            /\ UNCHANGED <<error_calls, exit, signal_result>>
    /\ UNCHANGED <<entry, overflow_checks, runner, arg_min, arg_max, entropy,
                   gr_out, rand_reads, random_result, faction, ixn_data,
                   settle_ixn, ixs, emit_calls, emit_result>>

\* line 29: generate_randomness(1, 100_000)
Draw ==
    /\ entry = "main" /\ pc = "Drawing"
    /\ \E src \in EntropyOutcomes :
         LET out == generate_randomness(One, U32(100000), src, overflow_checks)
         IN  /\ arg_min' = <<One>>
             /\ arg_max' = <<U32(100000)>>
             /\ entropy' = <<src>>
             /\ gr_out' = <<out>>
             /\ rand_reads' = rand_reads + out.reads
             /\ random_result' = out.value
             /\ IF out.status = "ok"
                  THEN pc' = "Building" /\ exit' = exit
                  ELSE pc' = "Aborted" /\ exit' = "panicked"
    /\ UNCHANGED <<entry, overflow_checks, runner, maybe_params, faction,
                   ixn_data, settle_ixn, ixs, emit_calls, emit_result,
                   error_calls, signal_result>>

\* lines 30-78: the instruction data, the settlement instruction (unwrapping
\* the request key), the compute-budget instruction and the ixs vec
Build ==
    /\ entry = "main" /\ pc = "Building"
    /\ LET params == maybe_params[1].ok[1]
           data == BuildIxnData(random_result[1], params.faction)
       IN  /\ ixn_data' = data
           /\ IF runner.function_request_key = <<>>
                THEN /\ pc' = "Aborted"
                     /\ exit' = "panicked"
                     /\ UNCHANGED <<settle_ixn, ixs>>
                ELSE LET settle == [program_id |-> params.program_id,
                                    data |-> data,
                                    accounts |-> SettleAccounts(runner, params)]
                     IN  /\ settle_ixn' = <<settle>>
                         /\ ixs' = BuildIxs(settle)
                         /\ pc' = "Emitting"
                         /\ exit' = exit
    /\ UNCHANGED <<entry, overflow_checks, runner, maybe_params, arg_min,
                   arg_max, entropy, gr_out, rand_reads, random_result,
                   faction, emit_calls, emit_result, error_calls,
                   signal_result>>

\* a faulty Emit: a failed emit is tried once more before code 3 is
\* signalled
Emit_RetriesOnError ==
    /\ entry = "main" /\ pc = "Emitting"
    /\ \E emitted \in BOOLEAN :
         IF emitted
           THEN /\ emit_calls' = Append(emit_calls, ixs)
                /\ emit_result' = "ok"
                /\ pc' = "Done"
                /\ UNCHANGED <<error_calls, signal_result>>
           ELSE /\ emit_calls' = Append(Append(emit_calls, ixs), ixs)
                /\ emit_result' = "err"
                /\ error_calls' = Append(error_calls, 3)
                /\ signal_result' \in {"ok", "err"}
                /\ pc' = "Failed"
    /\ exit' = "returned"
    /\ UNCHANGED <<entry, overflow_checks, runner, maybe_params, arg_min,
                   arg_max, entropy, gr_out, rand_reads, random_result,
                   faction, ixn_data, settle_ixn, ixs>>

\* a faulty Emit: a failed emit is signalled with the decode failure's code
Emit_SignalsCodeOne ==
    /\ entry = "main" /\ pc = "Emitting"
    /\ emit_calls' = Append(emit_calls, ixs)
    /\ \E emitted \in BOOLEAN :
         IF emitted
           THEN /\ emit_result' = "ok"
                /\ pc' = "Done"
                /\ UNCHANGED <<error_calls, signal_result>>
           ELSE /\ emit_result' = "err"
                /\ error_calls' = Append(error_calls, 1)
                /\ signal_result' \in {"ok", "err"}
                /\ pc' = "Failed"
    /\ exit' = "returned"
    /\ UNCHANGED <<entry, overflow_checks, runner, maybe_params, arg_min,
                   arg_max, entropy, gr_out, rand_reads, random_result,
                   faction, ixn_data, settle_ixn, ixs>>

\* lines 82-88: emit the instructions; on an error signal code 3, ignore
\* the signal's result, and return
Emit ==
    /\ entry = "main" /\ pc = "Emitting"
    /\ emit_calls' = Append(emit_calls, ixs)
    /\ \E emitted \in BOOLEAN :
         IF emitted
           THEN /\ emit_result' = "ok"
                /\ pc' = "Done"
                /\ UNCHANGED <<error_calls, signal_result>>
           ELSE /\ emit_result' = "err"
                /\ error_calls' = Append(error_calls, 3)
                /\ signal_result' \in {"ok", "err"}
                /\ pc' = "Failed"
    /\ exit' = "returned"
    /\ UNCHANGED <<entry, overflow_checks, runner, maybe_params, arg_min,
                   arg_max, entropy, gr_out, rand_reads, random_result,
                   faction, ixn_data, settle_ixn, ixs>>

(* ------------------------------- tests -------------------------------- *)

\* a call generate_randomness(min, max) as the tests make it
Call ==
    /\ entry = "test" /\ pc = "Call"
    /\ \E src \in EntropyOutcomes :
         LET out == generate_randomness(arg_min[1], arg_max[1], src,
                                        overflow_checks)
         IN  /\ entropy' = IF out.reads = 0 THEN <<>> ELSE <<src>>
             /\ gr_out' = <<out>>
             /\ rand_reads' = rand_reads + out.reads
             /\ random_result' = out.value
             /\ IF out.status = "ok"
                  THEN pc' = "Returned" /\ exit' = exit
                  ELSE pc' = "Panicked" /\ exit' = "panicked"
    /\ UNCHANGED <<entry, overflow_checks, runner, maybe_params, arg_min,
                   arg_max, faction, ixn_data, settle_ixn, ixs, emit_calls,
                   emit_result, error_calls, signal_result>>

\* test_generate_randomness_and_encode: the result's bytes and a faction
\* byte appended to the discriminator
Encode ==
    /\ entry = "test" /\ pc = "Returned"
    /\ \E f \in Factions :
         /\ faction' = <<f>>
         /\ ixn_data' = BuildIxnData(random_result[1], f)
    /\ pc' = "Encoded"
    /\ exit' = "returned"
    /\ UNCHANGED <<entry, overflow_checks, runner, maybe_params, arg_min,
                   arg_max, entropy, gr_out, rand_reads, random_result,
                   settle_ixn, ixs, emit_calls, emit_result, error_calls,
                   signal_result>>

Next == Validate \/ Draw \/ Build \/ Emit \/ Call \/ Encode

Spec == Init /\ [][Next]_vars

\* main is one task that the runtime runs to its end: every await returns,
\* so a step of main that can be taken is taken
FairSpec == Spec /\ WF_vars(Validate \/ Draw \/ Build \/ Emit)

(* ------------------------------ claims -------------------------------- *)

\* generate_randomness has been called and has ended
Called == gr_out # <<>>

\* the entropy source had four bytes to deliver on that call
HasEntropy == entropy # <<>> /\ entropy[1].kind = "bytes"

\* the smaller and the larger of the two bounds of the call
Lower == IF Lt(arg_max[1], arg_min[1]) THEN arg_max[1] ELSE arg_min[1]
Upper == IF Lt(arg_max[1], arg_min[1]) THEN arg_min[1] ELSE arg_max[1]

\* u32::from_le_bytes of a 4-byte sequence, as the receiving program reads it
u32_from_le_bytes(b) == <<b[3] + 256 * b[4], b[1] + 256 * b[2]>>

\* the request decoded, and the parameters it gave
DecodeOk == entry = "main" /\ maybe_params # <<>> /\ ~maybe_params[1].is_err
DecodeFailed == entry = "main" /\ maybe_params # <<>> /\ maybe_params[1].is_err
Params == maybe_params[1].ok[1]

\* the run of main is over
Ended == pc \in {"Done", "Failed", "Aborted"}

\* C1: for min <= max (max = 2^32-1 included) and every entropy word,
\* generate_randomness(min, max) returns v with min <= v <= max, equal to
\* (raw % ((max + 1) - min)) + min, with no u32 overflow and no division by
\* zero.
C1_InclusiveDraw ==
    (Called /\ HasEntropy /\ Leq(arg_min[1], arg_max[1]))
      => /\ gr_out[1].status = "ok"
         /\ ~gr_out[1].wrapped
         /\ Leq(arg_min[1], random_result[1])
         /\ Leq(random_result[1], arg_max[1])
         /\ (arg_min[1] # arg_max[1] /\ arg_max[1] # U32Max)
              => random_result[1] =
                   AddU32(RemU32(u32_from_le_bytes(entropy[1].bytes),
                                 SubU32(AddU32(arg_max[1], One).val,
                                        arg_min[1]).val),
                          arg_min[1]).val

\* C2: the settlement instruction has exactly 12 accounts, in the order
\* enclave signer, user, realm, user account, spaceship, function, function
\* request, opponents 1-5; positions 3, 5 and 8-12 are the writable ones and
\* position 1 is the only signer.
C2_AccountList ==
    settle_ixn # <<>>
      => LET acc == settle_ixn[1].accounts
         IN  /\ Len(acc) = 12
             /\ [i \in 1..12 |-> acc[i].pubkey] =
                  <<runner.signer, Params.user, Params.realm_pda,
                    Params.user_account_pda, Params.spaceship_pda,
                    runner.function, runner.function_request_key[1],
                    Params.opponent_spaceship_1_pda,
                    Params.opponent_spaceship_2_pda,
                    Params.opponent_spaceship_3_pda,
                    Params.opponent_spaceship_4_pda,
                    Params.opponent_spaceship_5_pda>>
             /\ {i \in 1..12 : acc[i].is_writable} = {3, 5, 8, 9, 10, 11, 12}
             /\ {i \in 1..12 : acc[i].is_signer} = {1}

\* an instruction built from a request whose twelve accounts all differ
C2_Witness ==
    /\ settle_ixn # <<>>
    /\ Cardinality({settle_ixn[1].accounts[i].pubkey : i \in 1..12}) = 12

\* C3: the instruction data is the 8-byte discriminator, then the 4 bytes
\* of the drawn value in little-endian order, then the faction byte, 13
\* bytes in all; reading the last 5 bytes back as (little-endian u32, u8)
\* gives the value and the faction.
C3_DataLayout ==
    ixn_data # <<>>
      => /\ Len(ixn_data) = 13
         /\ \A i \in 1..13 : ixn_data[i] \in 0..255
         /\ SubSeq(ixn_data, 1, 8) = <<86, 221, 134, 63, 62, 148, 27, 38>>
         /\ u32_from_le_bytes(SubSeq(ixn_data, 9, 12)) = random_result[1]
         /\ ixn_data[13] = IF entry = "main" THEN Params.faction
                                             ELSE faction[1]

\* main has drawn 42 for faction 1: the last five bytes are 42,0,0,0,1
C3_Witness ==
    /\ entry = "main"
    /\ ixn_data # <<>>
    /\ SubSeq(ixn_data, 9, 13) = <<42, 0, 0, 0, 1>>

\* C4: when the decode fails, main signals code 1 exactly once and stops:
\* no entropy is read, nothing is built, emit is never called.
C4_DecodeFailure ==
    DecodeFailed
      => /\ error_calls = <<1>>
         /\ pc = "Failed"
         /\ exit # "running"
         /\ ~ENABLED Next
         /\ rand_reads = 0
         /\ gr_out = <<>>
         /\ random_result = <<>>
         /\ ixn_data = <<>>
         /\ settle_ixn = <<>>
         /\ ixs = <<>>
         /\ emit_calls = <<>>
         /\ emit_result = "none"

\* a run whose request did not decode, the signal itself having failed
C4_Witness == DecodeFailed /\ signal_result = "err"

\* C5: when emit fails, main signals code 3 exactly once, after both
\* instructions were built, and returns without calling emit again, whether
\* or not the signal succeeded.
C5_EmitFailure ==
    emit_result = "err"
      => /\ error_calls = <<3>>
         /\ signal_result \in {"ok", "err"}
         /\ Len(ixs) = 2
         /\ settle_ixn # <<>>
         /\ ixs[2] = settle_ixn[1]
         /\ Len(ixs[2].data) = 13
         /\ Len(ixs[2].accounts) = 12
         /\ ixs[1].data = <<2, 128, 79, 18, 0>>
         /\ emit_calls = <<ixs>>
         /\ pc = "Failed"
         /\ exit = "returned"
         /\ ~ENABLED Next

\* emit failed and so did the signal of code 3
C5_Witness == emit_result = "err" /\ signal_result = "err"

\* the position of a phase in the pipeline
Rank(phase) ==
    CASE phase = "Validating" -> 1
      [] phase = "Drawing" -> 2
      [] phase = "Building" -> 3
      [] phase = "Emitting" -> 4
      [] OTHER -> 5

\* every failure exit has made exactly one signal, and nothing else has
C6_Signals ==
    entry = "main"
      => /\ pc = "Failed" <=> Len(error_calls) = 1
         /\ pc # "Failed" => error_calls = <<>>
         /\ pc = "Failed" => error_calls[1] \in {1, 3}

\* a step of main moves to the next phase or to an end, each end from
\* where it may be reached
C6_Step ==
    (entry = "main" /\ pc' # pc)
      => /\ Rank(pc) < Rank(pc')
         /\ Rank(pc') < 5 => Rank(pc') = Rank(pc) + 1
         /\ pc' = "Done" => pc = "Emitting"
         /\ pc' = "Failed" =>
              \/ pc = "Validating" /\ error_calls' = <<1>>
              \/ pc = "Emitting" /\ error_calls' = <<3>>
         /\ pc' = "Aborted" =>
              /\ pc \in {"Validating", "Drawing", "Building"}
              /\ exit' = "panicked"
              /\ error_calls' = <<>>

\* C6 as stated: a run that has ended has ended in Done, in Failed(1) or in
\* Failed(3), each failure exit having made exactly one signal.
C6_Original ==
    /\ C6_Signals
    /\ (entry = "main" /\ ~ENABLED Next) => pc \in {"Done", "Failed"}

\* C6, amended: every run of main moves through Validating, Drawing,
\* Building, Emitting in that order, never back, and ends in exactly one of
\* Done, Failed(1) (from Validating only), Failed(3) (from Emitting only) or
\* a panic of the process that signals nothing (from Validating, Drawing or
\* Building); each failure exit makes exactly one signal.
C6_PhasesAmended ==
    /\ [](C6_Signals)
    /\ [][C6_Step]_vars
    /\ (entry = "main") ~> Ended
    /\ []((entry = "main" /\ ~ENABLED Next) => Ended)

\* a run that the failing entropy source aborted in Drawing
C6_Witness ==
    /\ entry = "main"
    /\ pc = "Aborted"
    /\ Called
    /\ entropy[1].kind = "read_err"

\* emit was called at most once, and then with the compute-budget
\* instruction followed by the settlement instruction
C7_OneEmit ==
    entry = "main"
      => /\ Len(emit_calls) <= 1
         /\ emit_calls # <<>> =>
              /\ DecodeOk
              /\ Len(emit_calls[1]) = 2
              /\ emit_calls[1][1].program_id = ComputeBudgetId
              /\ emit_calls[1][1].data = <<2, 128, 79, 18, 0>>
              /\ emit_calls[1][1].accounts = <<>>
              /\ settle_ixn # <<>>
              /\ emit_calls[1][2] = settle_ixn[1]
              /\ emit_calls[1][2].program_id = Params.program_id

\* C7 as stated: a run whose decode succeeded has, at its end, called emit
\* exactly once, with the two instructions in that order.
C7_Original ==
    /\ C7_OneEmit
    /\ (DecodeOk /\ ~ENABLED Next) => Len(emit_calls) = 1

\* C7, amended: on every run whose decode succeeds and which does not panic
\* before Emitting, emit is called exactly once, with exactly two
\* instructions, the compute-budget one first and the settlement one second;
\* on the other runs emit is never called.
C7_EmitAmended ==
    /\ [](C7_OneEmit)
    /\ []((DecodeOk /\ ~ENABLED Next /\ pc # "Aborted")
            => Len(emit_calls) = 1)
    /\ []((entry = "main" /\ (~DecodeOk \/ pc = "Aborted"))
            => emit_calls = <<>>)
    /\ DecodeOk ~> (Len(emit_calls) = 1 \/ pc = "Aborted")

\* a run that emitted its two instructions and is done
C7_Witness ==
    /\ entry = "main"
    /\ pc = "Done"
    /\ Len(emit_calls) = 1

\* C8: for min > max and every entropy word, generate_randomness(min, max)
\* returns what generate_randomness(max, min) returns on that word, a value
\* between the two bounds; reversed bounds are never an error.
C8_SwapSymmetry ==
    (Called /\ HasEntropy /\ Lt(arg_max[1], arg_min[1]))
      => /\ gr_out[1] = generate_randomness(arg_max[1], arg_min[1],
                                            entropy[1], overflow_checks)
         /\ gr_out[1].status = "ok"
         /\ Leq(arg_max[1], random_result[1])
         /\ Leq(random_result[1], arg_min[1])

\* C9: generate_randomness(k, k) returns k and reads no entropy; a call
\* with min /= max reads the entropy source exactly once.
C9_EntropyReads ==
    Called
      => /\ arg_min[1] = arg_max[1] =>
              /\ gr_out[1].status = "ok"
              /\ random_result = <<arg_min[1]>>
              /\ rand_reads = 0
         /\ arg_min[1] # arg_max[1] => rand_reads = 1

\* C10: for distinct bounds in either order and every entropy word, the
\* result r satisfies lower <= r < upper: the larger bound is never
\* returned.
C10_UpperExcluded ==
    (Called /\ HasEntropy /\ arg_min[1] # arg_max[1])
      => /\ gr_out[1].status = "ok"
         /\ Leq(Lower, random_result[1])
         /\ Lt(random_result[1], Upper)

====
